---- MODULE Spec2Model ----
(***************************************************************************)
(* Model of src/app.py: the product-to-row normalizer parse_product_data   *)
(* and the helpers it calls.                                               *)
(*                                                                         *)
(* Python values are tagged records so that None, strings, integers and    *)
(* booleans stay distinct values, as they are in Python.  A string is a    *)
(* sequence of atoms: in a text that goes through                          *)
(* clean_text_for_dataframe every atom is one character (or one HTML tag); *)
(* in the other fields an atom abbreviates a run of ordinary characters.   *)
(* A dict is a function from its keys to values; a missing key is a key    *)
(* outside its DOMAIN.                                                     *)
(***************************************************************************)
EXTENDS Integers, Sequences, FiniteSets, TLC

\* ------------------------------------------------------------------ bounds
MaxVariants == 2
MaxImages == 2

\* ---------------------------------------------------------- Python values
None == [t |-> "None"]
StrV(s) == [t |-> "str", s |-> s]
IntV(n) == [t |-> "int", n |-> n]
BoolV(b) == [t |-> "bool", b |-> b]
ListV(l) == [t |-> "list", l |-> l]
S(a) == StrV(<<a>>)
EMPTY == StrV(<<>>)

\* Python truth value of a scalar
Truthy(v) ==
  CASE v.t = "None" -> FALSE
    [] v.t = "str" -> v.s # <<>>
    [] v.t = "int" -> v.n # 0
    [] v.t = "bool" -> v.b
    [] v.t = "list" -> v.l # <<>>

\* dict.get(key, default)
Get(d, key, default) == IF key \in DOMAIN d THEN d[key] ELSE default

\* dict.update(other) on a copy of d
Update(d, other) == other @@ d

\* --------------------------------------------- clean_text_for_dataframe
MaxCellLen == 2000
Unencodable == {"SURROGATE"}
ControlChars == {"NUL", "ESC"}
\* control characters whose code point is not below 32 (U+007F, U+0080..U+009F)
HighControlChars == {"DEL"}
Whitespace == {"SP", "TAB", "LF", "CR", "NBSP"}
HtmlTags == {"<p>", "</p>", "<b>", "</b>"}

\* re.sub(r'\s+', ' ', text): every run of whitespace becomes one space (the
\* last character of a run is kept, as a space, the others are dropped)
CollapseWs(s) ==
  LET marked == [k \in DOMAIN s |->
                   [char |-> IF s[k] \in Whitespace THEN "SP" ELSE s[k],
                    kept |-> ~(s[k] \in Whitespace /\ k < Len(s) /\ s[k + 1] \in Whitespace)]]
      kept == SelectSeq(marked, LAMBDA m : m.kept)
  IN [k \in DOMAIN kept |-> kept[k].char]

\* the positions of s that hold no whitespace
Solid(s) == {k \in DOMAIN s : s[k] \notin Whitespace}

LStrip(s) ==
  IF Solid(s) = {} THEN <<>>
  ELSE SubSeq(s, CHOOSE k \in Solid(s) : \A j \in Solid(s) : k <= j, Len(s))

RStrip(s) ==
  IF Solid(s) = {} THEN <<>>
  ELSE SubSeq(s, 1, CHOOSE k \in Solid(s) : \A j \in Solid(s) : k >= j)

Strip(s) == RStrip(LStrip(s))

\* str(text)
py_str(v) ==
  CASE v.t = "str" -> v.s
    [] v.t = "int" -> <<ToString(v.n)>>
    [] v.t = "bool" -> IF v.b THEN <<"True">> ELSE <<"False">>
    [] v.t = "None" -> <<"None">>

clean_text_for_dataframe(value) ==
  IF ~Truthy(value) THEN EMPTY
  ELSE LET encoded == SelectSeq(py_str(value), LAMBDA c : c \notin Unencodable)
           printable == SelectSeq(encoded, LAMBDA c : c \notin ControlChars)
           normal == Strip(CollapseWs(printable))
       IN IF Len(normal) > MaxCellLen
          THEN StrV(SubSeq(normal, 1, MaxCellLen) \o <<".", ".", ".">>)
          ELSE StrV(normal)

\* BeautifulSoup(html, 'html.parser').get_text().strip()
get_text_strip(html) == StrV(Strip(SelectSeq(html.s, LAMBDA c : c \notin HtmlTags)))

\* ----------------------------------------------------------------- inputs
OptionTuples ==
  { <<None, None, None>>,
    <<S("Default Title"), None, None>>,
    <<S("Red"), None, None>>,
    <<S("Blue"), None, None>>,
    <<None, S("Green"), None>>,
    <<None, None, S("L")>> }

ImageIds == {None, IntV(102), IntV(999)}

Variant(o, im) ==
  [id |-> IntV(7), title |-> IF o[1] = None THEN S("Default Title") ELSE o[1],
   option1 |-> o[1], option2 |-> o[2], option3 |-> o[3],
   sku |-> S("SKU-1"), grams |-> IntV(250), price |-> S("9.99"),
   compare_at_price |-> None, requires_shipping |-> BoolV(TRUE),
   taxable |-> BoolV(im = None), available |-> BoolV(im # None),
   image_id |-> im]

\* a variant record that carries almost no key
SparseVariant == [price |-> S("5.00")]

\* the option tuple and the image id of a variant are read independently of
\* each other, so they vary one at a time
Variants ==
  {Variant(o, None) : o \in OptionTuples} \cup
  {Variant(<<S("Red"), None, None>>, im) : im \in ImageIds} \cup
  {SparseVariant}

Image(k) ==
  LET core == [id |-> IntV(100 + k), src |-> StrV(<<"https://cdn/", ToString(k)>>),
               position |-> IntV(k)]
  IN CASE k = 1 -> core @@ [alt |-> S("front")]
       [] k = 2 -> core @@ [alt |-> None]
       [] OTHER -> core

SeqsUpTo(set, n) == UNION {[1..m -> set] : m \in 0..n}

VariantLists == SeqsUpTo(Variants, MaxVariants)
ImageLists == {[k \in 1..n |-> Image(k)] : n \in 0..MaxImages}

Bases ==
  { [id |-> IntV(1), handle |-> S("tee"), title |-> S("Tee"),
     body_html |-> StrV(<<"<p>", "a", "SP", "LF", "NUL", "b", "SP", "</p>">>),
     vendor |-> S("Acme"), product_type |-> S("Shirts"),
     tags |-> <<S("new"), S("sale")>>, published_at |-> S("2024-01-01"),
     created_at |-> S("2023-12-01"), updated_at |-> S("2024-02-01")],
    [id |-> IntV(2), handle |-> S("mug"), title |-> S("Mug"),
     body_html |-> None, product_type |-> EMPTY, tags |-> <<>>,
     published_at |-> None, collection |-> S("Home")] }

Products ==
  {b @@ [variants |-> vs, images |-> is] : b \in Bases, vs \in VariantLists, is \in ImageLists}

\* fixed neighbours of the product under study: one without an images key,
\* one without a variants key
ImagelessNeighbour ==
  [id |-> IntV(3), handle |-> S("cap"), title |-> S("Cap"), product_type |-> S("Hats"),
   tags |-> <<S("sun")>>, published_at |-> S("2024-03-01"),
   variants |-> <<Variant(<<S("Red"), None, None>>, None)>>]

VariantlessNeighbour ==
  [id |-> IntV(4), handle |-> S("pin"), title |-> S("Pin"), body_html |-> StrV(<<"x">>),
   tags |-> <<>>, published_at |-> None,
   images |-> <<Image(1), Image(2)>>]

ProductLists ==
  {<<p>> : p \in Products} \cup
  {<<ImagelessNeighbour, p, VariantlessNeighbour>> : p \in Products}

\* ------------------------------------------------------------------ state
\* parse_product_data
VARIABLES products, pc, i, variants, images, image_mapping, base_product,
          main_image, has_real_options, variant_index, img_index,
          parsed_products, origin

parse_vars == <<products, pc, i, variants, images, image_mapping, base_product,
                main_image, has_real_options, variant_index, img_index,
                parsed_products, origin>>

\* get_products_json: its locals, its return value, and the history of the
\* page requests it issued (the length of every page received, in order)
VARIABLES gpj_pc, gpj_limit, gpj_page, gpj_all_products, gpj_result, gpj_pages, gpj_sleeps

gpj_vars == <<gpj_pc, gpj_limit, gpj_page, gpj_all_products, gpj_result, gpj_pages,
             gpj_sleeps>>

\* get_collections_and_products: its locals, its return value, and the
\* history of the outcomes of the requests it issued
VARIABLES gcp_pc, gcp_collections, gcp_index, gcp_all_products,
          gcp_collection_products, gcp_result, gcp_requests, gcp_sleeps

gcp_vars == <<gcp_pc, gcp_collections, gcp_index, gcp_all_products,
              gcp_collection_products, gcp_result, gcp_requests, gcp_sleeps>>

\* main: the session state kept across reruns of the script
VARIABLES scraped_data, collection_info, last_scraped_url, scraping_completed

\* history: the store_url of the run that stored the present scraped_data
VARIABLES stored_from

session_vars == <<scraped_data, collection_info, last_scraped_url, scraping_completed,
                  stored_from>>

\* main: the locals of one scrape run (m_collection_info is the local
\* collection_info, m_products the local products of a single-method run), the
\* message shown when the run ends, and two histories of the run: the fetch
\* methods completed so far and the products handed to parse_product_data
VARIABLES m_pc, m_stage, store_url, scraping_method, all_products, m_collection_info,
          m_products, products1, products2, products3, collections, new_products,
          m_message, m_log, m_contributed

run_vars == <<m_pc, m_stage, store_url, scraping_method, all_products, m_collection_info,
              m_products, products1, products2, products3, collections, new_products,
              m_message, m_log, m_contributed>>

main_vars == <<session_vars, run_vars>>

\* clean_text_for_dataframe called on its own: its argument, the value it
\* returns and whether it has returned
VARIABLES text, cleaned, clean_pc

clean_vars == <<text, cleaned, clean_pc>>

vars == <<parse_vars, gpj_vars, gcp_vars, main_vars, clean_vars>>

\* ------------------------------------------- parse_product_data: helpers
\* `not images`, `not variants`: an empty list is falsy
IsEmptyList(l) == l = <<>>

\* `if not images: continue`
no_images_skipfree(imgs) == FALSE
no_images(imgs) == IsEmptyList(imgs)

\* the default variant of a product without variants
default_variant_unavailable ==
  [id |-> None, title |-> S("Default Title"),
   option1 |-> None, option2 |-> None, option3 |-> None,
   sku |-> EMPTY, grams |-> IntV(0), inventory_quantity |-> IntV(0),
   price |-> S("0"), compare_at_price |-> EMPTY,
   requires_shipping |-> BoolV(TRUE), taxable |-> BoolV(TRUE),
   weight_unit |-> S("kg"), image_id |-> None]
default_variant ==
  [id |-> None, title |-> S("Default Title"),
   option1 |-> None, option2 |-> None, option3 |-> None,
   sku |-> EMPTY, grams |-> IntV(0), inventory_quantity |-> IntV(0),
   price |-> S("0"), compare_at_price |-> EMPTY,
   requires_shipping |-> BoolV(TRUE), taxable |-> BoolV(TRUE),
   weight_unit |-> S("kg"), available |-> BoolV(TRUE), image_id |-> None]

variants_or_default_reversed(vs) ==
  IF IsEmptyList(vs) THEN <<default_variant>> ELSE [k \in DOMAIN vs |-> vs[Len(vs) + 1 - k]]
variants_or_default(vs) == IF IsEmptyList(vs) THEN <<default_variant>> ELSE vs

collection_name_of(product) ==
  LET name == Get(product, "collection", EMPTY)
  IN IF ~Truthy(name) /\ Truthy(Get(product, "product_type", None))
     THEN StrV(<<"Type: ">> \o product["product_type"].s)
     ELSE name

\* image_mapping[img.get('id')] = {...}: a later image with the same id
\* overwrites an earlier one
image_mapping_of(imgs) ==
  [id \in {Get(imgs[k], "id", None) : k \in DOMAIN imgs} |->
     LET last == CHOOSE k \in DOMAIN imgs :
                   /\ Get(imgs[k], "id", None) = id
                   /\ \A m \in DOMAIN imgs : Get(imgs[m], "id", None) = id => m <= k
     IN [src |-> Get(imgs[last], "src", EMPTY),
         alt |-> Get(imgs[last], "alt", EMPTY),
         position |-> Get(imgs[last], "position", IntV(0))]]

\* ', '.join(tags)
RECURSIVE JoinTags(_)
JoinTags(tags) ==
  IF tags = <<>> THEN <<>>
  ELSE IF Len(tags) = 1 THEN tags[1].s
  ELSE tags[1].s \o <<", ">> \o JoinTags(Tail(tags))

TrueFalse_native(b) == BoolV(b)
TrueFalse(b) == IF b THEN S("TRUE") ELSE S("FALSE")

base_product_of(product) ==
  ("Handle" :> Get(product, "handle", EMPTY)) @@
  ("Title" :> Get(product, "title", EMPTY)) @@
  ("Body (HTML)" :> clean_text_for_dataframe(Get(product, "body_html", EMPTY))) @@
  ("Vendor" :> Get(product, "vendor", EMPTY)) @@
  ("Product Category" :> collection_name_of(product)) @@
  ("Type" :> Get(product, "product_type", EMPTY)) @@
  ("Tags" :> StrV(JoinTags(Get(product, "tags", <<>>)))) @@
  ("Published" :> TrueFalse(Truthy(Get(product, "published_at", None)))) @@
  ("Collection" :> collection_name_of(product)) @@
  ("Created At" :> Get(product, "created_at", EMPTY)) @@
  ("Updated At" :> Get(product, "updated_at", EMPTY)) @@
  ("Description" :>
     IF Truthy(Get(product, "body_html", None))
     THEN clean_text_for_dataframe(get_text_strip(Get(product, "body_html", EMPTY)))
     ELSE EMPTY)

main_image_of(imgs) == IF ~IsEmptyList(imgs) THEN Get(imgs[1], "src", EMPTY) ELSE EMPTY

\* any(v.get('option1') and v.get('option1') != 'Default Title' for v in variants)
any_real_option(vs) ==
  \E k \in DOMAIN vs :
     /\ Truthy(Get(vs[k], "option1", None))
     /\ Get(vs[k], "option1", None) # S("Default Title")

\* the variant's own image when its image_id is truthy and in the mapping,
\* the main image otherwise
variant_image_url_main_only(variant, mapping, main) == main
variant_image_url_of(variant, mapping, main) ==
  LET variant_image_id == Get(variant, "image_id", None)
  IN IF Truthy(variant_image_id) /\ variant_image_id \in DOMAIN mapping
     THEN mapping[variant_image_id].src
     ELSE main

option_fields(real, variant) ==
  IF real
  THEN ("Option1 Name" :> S("Title")) @@
       ("Option1 Value" :> Get(variant, "option1", EMPTY)) @@
       ("Option2 Name" :> IF Truthy(Get(variant, "option2", None)) THEN S("Color") ELSE EMPTY) @@
       ("Option2 Value" :> Get(variant, "option2", EMPTY)) @@
       ("Option3 Name" :> IF Truthy(Get(variant, "option3", None)) THEN S("Size") ELSE EMPTY) @@
       ("Option3 Value" :> Get(variant, "option3", EMPTY))
  ELSE ("Option1 Name" :> EMPTY) @@ ("Option1 Value" :> EMPTY) @@
       ("Option2 Name" :> EMPTY) @@ ("Option2 Value" :> EMPTY) @@
       ("Option3 Name" :> EMPTY) @@ ("Option3 Value" :> EMPTY)

variant_fields_policy_continue(variant, vs) ==
  ("Variant SKU" :> Get(variant, "sku", EMPTY)) @@
  ("Variant Grams" :> Get(variant, "grams", IntV(0))) @@
  ("Variant Inventory Tracker" :> S("shopify")) @@
  ("Variant Inventory Qty" :> Get(variant, "inventory_quantity", IntV(0))) @@
  ("Variant Inventory Policy" :> Get(variant, "inventory_policy", S("continue"))) @@
  ("Variant Fulfillment Service" :> S("manual")) @@
  ("Variant Price" :> Get(variant, "price", S("0"))) @@
  ("Variant Compare At Price" :> Get(variant, "compare_at_price", EMPTY)) @@
  ("Variant Requires Shipping" :>
     TrueFalse(Truthy(Get(variant, "requires_shipping", BoolV(TRUE))))) @@
  ("Variant Taxable" :> TrueFalse(Truthy(Get(variant, "taxable", BoolV(TRUE))))) @@
  ("Variant Weight Unit" :> Get(variant, "weight_unit", S("kg"))) @@
  ("Available" :> TrueFalse(Truthy(Get(variant, "available", BoolV(FALSE))))) @@
  ("Variants Count" :> IntV(Len(vs))) @@
  ("Variant Title" :> Get(variant, "title", S("Default Title")))
variant_fields(variant, vs) ==
  ("Variant SKU" :> Get(variant, "sku", EMPTY)) @@
  ("Variant Grams" :> Get(variant, "grams", IntV(0))) @@
  ("Variant Inventory Tracker" :> S("shopify")) @@
  ("Variant Inventory Qty" :> Get(variant, "inventory_quantity", IntV(0))) @@
  ("Variant Inventory Policy" :> S("deny")) @@
  ("Variant Fulfillment Service" :> S("manual")) @@
  ("Variant Price" :> Get(variant, "price", S("0"))) @@
  ("Variant Compare At Price" :> Get(variant, "compare_at_price", EMPTY)) @@
  ("Variant Requires Shipping" :>
     TrueFalse(Truthy(Get(variant, "requires_shipping", BoolV(TRUE))))) @@
  ("Variant Taxable" :> TrueFalse(Truthy(Get(variant, "taxable", BoolV(TRUE))))) @@
  ("Variant Weight Unit" :> Get(variant, "weight_unit", S("kg"))) @@
  ("Available" :> TrueFalse(Truthy(Get(variant, "available", BoolV(FALSE))))) @@
  ("Variants Count" :> IntV(Len(vs))) @@
  ("Variant Title" :> Get(variant, "title", S("Default Title")))

image_fields(index, variant, imgs, mapping, main) ==
  LET variant_image_id == Get(variant, "image_id", None)
      variant_image_url == variant_image_url_of(variant, mapping, main)
  IN IF index = 0
     THEN ("Image Src" :> main) @@
          ("Image Position" :> IntV(1)) @@
          ("Image Alt Text" :>
             IF ~IsEmptyList(imgs) THEN Get(imgs[1], "alt", EMPTY) ELSE EMPTY) @@
          ("Variant Image" :> variant_image_url)
     ELSE ("Image Src" :> variant_image_url) @@
          ("Image Position" :> IntV(index + 1)) @@
          ("Image Alt Text" :>
             IF variant_image_id \in DOMAIN mapping
             THEN Get(mapping[variant_image_id], "alt", EMPTY)
             ELSE EMPTY) @@
          ("Variant Image" :> variant_image_url)

\* the row of variants[index] (index counted from 0)
variant_row_of(base, index, vs, imgs, mapping, main, real) ==
  LET variant == vs[index + 1]
  IN Update(Update(Update(base, option_fields(real, variant)),
                   variant_fields(variant, vs)),
            image_fields(index, variant, imgs, mapping, main))

\* the option and variant columns an image-only row blanks
BlankedColumns ==
  {"Option1 Name", "Option1 Value", "Option2 Name", "Option2 Value",
   "Option3 Name", "Option3 Value",
   "Variant SKU", "Variant Grams", "Variant Inventory Tracker", "Variant Inventory Qty",
   "Variant Inventory Policy", "Variant Fulfillment Service", "Variant Price",
   "Variant Compare At Price", "Variant Requires Shipping", "Variant Taxable",
   "Variant Weight Unit", "Variant Image", "Available", "Variants Count",
   "Variant Title"}

blank_fields_zero_count == [c \in BlankedColumns |-> IF c = "Variants Count" THEN IntV(0) ELSE EMPTY]
blank_fields == [c \in BlankedColumns |-> EMPTY]

\* an image row that takes its Title from the image's alt text
image_row_of_alt_title(base, image, index) ==
  Update(base,
    ("Title" :> Get(image, "alt", EMPTY)) @@
    ("Image Src" :> Get(image, "src", EMPTY)) @@
    ("Image Position" :> IntV(index)) @@
    ("Image Alt Text" :> Get(image, "alt", EMPTY)) @@
    blank_fields)

\* the row of an image beyond the first, at position index
image_row_of(base, image, index) ==
  Update(base,
    ("Image Src" :> Get(image, "src", EMPTY)) @@
    ("Image Position" :> IntV(index)) @@
    ("Image Alt Text" :> Get(image, "alt", EMPTY)) @@
    blank_fields)

\* images[1:], enumerated from position 2
FirstExtraPosition == 2
extra_images_all(imgs) == imgs
extra_images(imgs) == SubSeq(imgs, 2, Len(imgs))

\* --------------------------------------- parse_product_data: the loops
\* pc: "product" at the head of the loop over products, "variant" at the
\* head of the loop over variants, "image" at the head of the loop over the
\* additional images, "done" after the return.  origin records, for every
\* row appended to parsed_products, the product, loop and index it came from.
product == products[i + 1]

\* a function that is not running
GpjIdle ==
  /\ gpj_pc = "idle"
  /\ gpj_limit = 0
  /\ gpj_page = 1
  /\ gpj_all_products = <<>>
  /\ gpj_result = None
  /\ gpj_pages = <<>>
  /\ gpj_sleeps = <<>>

GcpIdle ==
  /\ gcp_pc = "idle"
  /\ gcp_collections = <<>>
  /\ gcp_index = 0
  /\ gcp_all_products = <<>>
  /\ gcp_collection_products = <<>>
  /\ gcp_result = None
  /\ gcp_requests = <<>>
  /\ gcp_sleeps = <<>>

ParseIdle ==
  /\ products = <<>>
  /\ pc = "idle"
  /\ i = 0
  /\ variants = <<>>
  /\ images = <<>>
  /\ image_mapping = <<>>
  /\ base_product = <<>>
  /\ main_image = EMPTY
  /\ has_real_options = FALSE
  /\ variant_index = 0
  /\ img_index = FirstExtraPosition
  /\ parsed_products = <<>>
  /\ origin = <<>>

\* main before the first interaction, no run in progress
SessionFresh ==
  /\ scraped_data = <<>>
  /\ collection_info = <<>>
  /\ last_scraped_url = EMPTY
  /\ scraping_completed = FALSE
  /\ stored_from = EMPTY

RunIdle ==
  /\ m_pc = "idle"
  /\ m_stage = "none"
  /\ store_url = EMPTY
  /\ scraping_method = "none"
  /\ all_products = <<>>
  /\ m_collection_info = <<>>
  /\ m_products = None
  /\ products1 = None
  /\ products2 = None
  /\ products3 = None
  /\ collections = <<>>
  /\ new_products = <<>>
  /\ m_message = "none"
  /\ m_log = <<>>
  /\ m_contributed = <<>>

MainIdle == SessionFresh /\ RunIdle

CleanIdle ==
  /\ text = None
  /\ cleaned = None
  /\ clean_pc = "idle"

\* the state of the other functions while parse_product_data runs on its own
outside_parse == <<gpj_vars, gcp_vars, main_vars, clean_vars>>

InitParse ==
  /\ products \in ProductLists
  /\ pc = "product"
  /\ i = 0
  /\ variants = <<>>
  /\ images = <<>>
  /\ image_mapping = <<>>
  /\ base_product = <<>>
  /\ main_image = EMPTY
  /\ has_real_options = FALSE
  /\ variant_index = 0
  /\ img_index = FirstExtraPosition
  /\ parsed_products = <<>>
  /\ origin = <<>>
  /\ GpjIdle
  /\ GcpIdle
  /\ MainIdle
  /\ CleanIdle

\* a product without images: `continue`
SkipProduct ==
  /\ pc = "product"
  /\ i < Len(products)
  /\ no_images(Get(product, "images", <<>>))
  /\ variants' = Get(product, "variants", <<>>)
  /\ images' = Get(product, "images", <<>>)
  /\ i' = i + 1
  /\ UNCHANGED outside_parse
  /\ UNCHANGED <<products, pc, image_mapping, base_product, main_image,
                 has_real_options, variant_index, img_index, parsed_products, origin>>

\* a product with images: everything up to the loop over its variants
BeginProduct ==
  /\ pc = "product"
  /\ i < Len(products)
  /\ ~no_images(Get(product, "images", <<>>))
  /\ variants' = variants_or_default(Get(product, "variants", <<>>))
  /\ images' = Get(product, "images", <<>>)
  /\ image_mapping' = image_mapping_of(images')
  /\ base_product' = base_product_of(product)
  /\ main_image' = main_image_of(images')
  /\ has_real_options' = any_real_option(variants')
  /\ variant_index' = 0
  /\ pc' = "variant"
  /\ UNCHANGED outside_parse
  /\ UNCHANGED <<products, i, img_index, parsed_products, origin>>

\* one iteration of the loop over variants
VariantRow ==
  /\ pc = "variant"
  /\ variant_index < Len(variants)
  /\ parsed_products' = Append(parsed_products,
       variant_row_of(base_product, variant_index, variants, images,
                      image_mapping, main_image, has_real_options))
  /\ origin' = Append(origin, [product |-> i, kind |-> "variant", index |-> variant_index])
  /\ variant_index' = variant_index + 1
  /\ UNCHANGED outside_parse
  /\ UNCHANGED <<products, pc, i, variants, images, image_mapping, base_product,
                 main_image, has_real_options, img_index>>

\* the loop over variants is exhausted
EndVariants ==
  /\ pc = "variant"
  /\ variant_index = Len(variants)
  /\ pc' = "image"
  /\ img_index' = FirstExtraPosition
  /\ UNCHANGED outside_parse
  /\ UNCHANGED <<products, i, variants, images, image_mapping, base_product,
                 main_image, has_real_options, variant_index, parsed_products, origin>>

\* one iteration of the loop over images[1:]
ImageRow ==
  /\ pc = "image"
  /\ img_index - FirstExtraPosition < Len(extra_images(images))
  /\ parsed_products' = Append(parsed_products,
       image_row_of(base_product,
                    extra_images(images)[img_index - FirstExtraPosition + 1], img_index))
  /\ origin' = Append(origin, [product |-> i, kind |-> "image", index |-> img_index])
  /\ img_index' = img_index + 1
  /\ UNCHANGED outside_parse
  /\ UNCHANGED <<products, pc, i, variants, images, image_mapping, base_product,
                 main_image, has_real_options, variant_index>>

\* the additional images are exhausted: on to the next product
EndProduct ==
  /\ pc = "image"
  /\ img_index - FirstExtraPosition >= Len(extra_images(images))
  /\ i' = i + 1
  /\ pc' = "product"
  /\ UNCHANGED outside_parse
  /\ UNCHANGED <<products, variants, images, image_mapping, base_product, main_image,
                 has_real_options, variant_index, img_index, parsed_products, origin>>

\* return parsed_products
Return ==
  /\ pc = "product"
  /\ i >= Len(products)
  /\ pc' = "done"
  /\ UNCHANGED outside_parse
  /\ UNCHANGED <<products, i, variants, images, image_mapping, base_product, main_image,
                 has_real_options, variant_index, img_index, parsed_products, origin>>

NextParse ==
  \/ SkipProduct
  \/ BeginProduct
  \/ VariantRow
  \/ EndVariants
  \/ ImageRow
  \/ EndProduct
  \/ Return

Spec == InitParse /\ [][NextParse]_vars


\* ----------------------------------------------------- reading the output
\* the input product a row was emitted for, and its raw lists
RowIndexes == DOMAIN parsed_products
ProductIndexes == 0..(Len(products) - 1)
SourceOf(k) == products[origin[k].product + 1]
RawVariants(p) == Get(p, "variants", <<>>)
RawImages(p) == Get(p, "images", <<>>)

\* the rows of the product at index j, and whether its group is complete
GroupOf(j) == {k \in RowIndexes : origin[k].product = j}
VariantRowsOf(j) == {k \in GroupOf(j) : origin[k].kind = "variant"}
ImageRowsOf(j) == {k \in GroupOf(j) : origin[k].kind = "image"}
GroupComplete(j) == i > j

OptionColumns ==
  {"Option1 Name", "Option1 Value", "Option2 Name", "Option2 Value",
   "Option3 Name", "Option3 Value"}
AllOptionsEmpty(row) == \A c \in OptionColumns : row[c] = EMPTY

\* the rows parse_product_data emits for the one-product list <<p>>, p with images
rows_of_product(p) ==
  LET vs == variants_or_default(RawVariants(p))
      imgs == RawImages(p)
      extra == extra_images(imgs)
      base == base_product_of(p)
  IN [k \in 1..Len(vs) |->
        variant_row_of(base, k - 1, vs, imgs, image_mapping_of(imgs),
                       main_image_of(imgs), any_real_option(vs))]
     \o [k \in 1..Len(extra) |-> image_row_of(base, extra[k], k + FirstExtraPosition - 1)]

RECURSIVE FlatRows(_)
FlatRows(ps) == IF ps = <<>> THEN <<>> ELSE rows_of_product(Head(ps)) \o FlatRows(Tail(ps))

HasImages(p) == RawImages(p) # <<>>

\* ------------------------------------------------------------------ claims
\* C1: a product whose images list is empty contributes no row, whatever its
\* variants are, and the returned rows are exactly the rows of the products
\* that do have images, as if the image-less products were not in the list.
C1_NoImagesNoRows ==
  /\ \A j \in ProductIndexes : ~HasImages(products[j + 1]) => GroupOf(j) = {}
  /\ pc = "done" => parsed_products = FlatRows(SelectSeq(products, HasImages))

C1_Witness ==
  /\ pc = "done"
  /\ parsed_products # <<>>
  /\ \E j \in ProductIndexes :
       ~HasImages(products[j + 1]) /\ RawVariants(products[j + 1]) # <<>>

\* C2: a product with zero variants and at least one image gets exactly one
\* variant row, the row of the synthesized default variant: Variant Title
\* "Default Title", Variant Price "0", Available "TRUE", six empty option fields.
C2_DefaultVariantRow ==
  \A j \in ProductIndexes :
    (RawVariants(products[j + 1]) = <<>> /\ HasImages(products[j + 1])) =>
      /\ Cardinality(VariantRowsOf(j)) <= 1
      /\ GroupComplete(j) => Cardinality(VariantRowsOf(j)) = 1
      /\ \A k \in VariantRowsOf(j) :
           /\ parsed_products[k]["Variant Title"] = S("Default Title")
           /\ parsed_products[k]["Variant Price"] = S("0")
           /\ parsed_products[k]["Available"] = S("TRUE")
           /\ AllOptionsEmpty(parsed_products[k])

C2_Witness ==
  \E j \in ProductIndexes :
    /\ RawVariants(products[j + 1]) = <<>>
    /\ HasImages(products[j + 1])
    /\ GroupComplete(j)
    /\ VariantRowsOf(j) # {}

\* the raw variant a variant row was emitted for (the product has variants)
VariantOf(k) == RawVariants(SourceOf(k))[origin[k].index + 1]

\* option tuples and meaningful options
OptionTuple(v) == <<Get(v, "option1", None), Get(v, "option2", None), Get(v, "option3", None)>>
Meaningful(x) == x # None /\ x # S("Default Title")
MeaningfulTuples(vs) ==
  {OptionTuple(vs[k]) : k \in {m \in DOMAIN vs : \E n \in 1..3 : Meaningful(OptionTuple(vs[m])[n])}}
IsMultiVariant(p) == Cardinality(MeaningfulTuples(RawVariants(p))) > 1
SameTupleEverywhere(vs) == \A a, b \in DOMAIN vs : OptionTuple(vs[a]) = OptionTuple(vs[b])

OptionName(n) == <<"Option1 Name", "Option2 Name", "Option3 Name">>[n]
OptionValue(n) == <<"Option1 Value", "Option2 Value", "Option3 Value">>[n]
OptionLabel(n) == <<S("Title"), S("Color"), S("Size")>>[n]

\* C3: a product whose variants all carry the same option tuple is
\* single-variant: the six option fields are empty on every row of the product.
C3_SameTupleOptionsEmpty ==
  \A j \in ProductIndexes :
    SameTupleEverywhere(RawVariants(products[j + 1])) =>
      \A k \in GroupOf(j) : AllOptionsEmpty(parsed_products[k])

\* C4: a product with two or more distinct meaningful option tuples is
\* multi-variant whichever slot tells the variants apart: on its variant rows
\* every meaningful option shows its fixed label and its raw value.
C4_AllSlotsDetected ==
  \A j \in ProductIndexes :
    IsMultiVariant(products[j + 1]) =>
      \A k \in VariantRowsOf(j) : \A n \in 1..3 :
        Meaningful(OptionTuple(VariantOf(k))[n]) =>
          /\ parsed_products[k][OptionName(n)] = OptionLabel(n)
          /\ parsed_products[k][OptionValue(n)] = OptionTuple(VariantOf(k))[n]

\* C5: on a variant row of a multi-variant product each slot holds either the
\* fixed label with the raw value (meaningful option) or two empty strings.
C5_NameAndValueTogether ==
  \A j \in ProductIndexes :
    IsMultiVariant(products[j + 1]) =>
      \A k \in VariantRowsOf(j) : \A n \in 1..3 :
        IF Meaningful(OptionTuple(VariantOf(k))[n])
        THEN /\ parsed_products[k][OptionName(n)] = OptionLabel(n)
             /\ parsed_products[k][OptionValue(n)] = OptionTuple(VariantOf(k))[n]
        ELSE /\ parsed_products[k][OptionName(n)] = EMPTY
             /\ parsed_products[k][OptionValue(n)] = EMPTY

\* the images of the product whose id is the variant's image_id
ResolvedImages(p, v) ==
  {m \in DOMAIN RawImages(p) :
     /\ Get(v, "image_id", None) # None
     /\ Get(RawImages(p)[m], "id", None) = Get(v, "image_id", None)}

\* C6: the row of a variant at index >= 1 leaves Image Src, Image Position and
\* Image Alt Text empty; its Variant Image is the variant's own image when the
\* image_id resolves and empty otherwise.
C6_LaterVariantImagesEmpty ==
  \A k \in RowIndexes :
    (origin[k].kind = "variant" /\ origin[k].index >= 1) =>
      /\ parsed_products[k]["Image Src"] = EMPTY
      /\ parsed_products[k]["Image Position"] = EMPTY
      /\ parsed_products[k]["Image Alt Text"] = EMPTY
      /\ LET hits == ResolvedImages(SourceOf(k), VariantOf(k))
         IN IF hits # {}
            THEN \E m \in hits :
                   parsed_products[k]["Variant Image"] = Get(RawImages(SourceOf(k))[m], "src", EMPTY)
            ELSE parsed_products[k]["Variant Image"] = EMPTY

\* the image_id of the first variant of p (None for the default variant)
FirstVariantOf(p) == variants_or_default(RawVariants(p))[1]

\* C7: the first variant row of a product with images carries the main image
\* (Image Src and Image Alt Text of images[0], Image Position 1); its Variant
\* Image is the variant's own image when the image_id resolves, the main
\* image otherwise.
C7_FirstVariantMainImage ==
  \A k \in RowIndexes :
    (origin[k].kind = "variant" /\ origin[k].index = 0) =>
      LET p == SourceOf(k)
          first == RawImages(p)[1]
          hits == ResolvedImages(p, FirstVariantOf(p))
      IN /\ parsed_products[k]["Image Src"] = Get(first, "src", EMPTY)
         /\ parsed_products[k]["Image Position"] = IntV(1)
         /\ parsed_products[k]["Image Alt Text"] = Get(first, "alt", EMPTY)
         /\ IF hits # {}
            THEN \E m \in hits :
                   parsed_products[k]["Variant Image"] = Get(RawImages(p)[m], "src", EMPTY)
            ELSE parsed_products[k]["Variant Image"] = Get(first, "src", EMPTY)

C7_Witness ==
  \E k \in RowIndexes :
    /\ origin[k].kind = "variant"
    /\ origin[k].index = 0
    /\ ResolvedImages(SourceOf(k), FirstVariantOf(SourceOf(k))) # {}
    /\ parsed_products[k]["Variant Image"] # parsed_products[k]["Image Src"]

Max(a, b) == IF a >= b THEN a ELSE b

\* C8: a product with I >= 1 images and V variants gets max(V, 1) + (I - 1)
\* rows: one per variant (one for the default variant) and one per image
\* beyond the first.
C8_RowCount ==
  \A j \in ProductIndexes :
    (HasImages(products[j + 1]) /\ GroupComplete(j)) =>
      Cardinality(GroupOf(j)) =
        Max(Len(RawVariants(products[j + 1])), 1) + (Len(RawImages(products[j + 1])) - 1)

C8_Witness ==
  \E j \in ProductIndexes :
    /\ GroupComplete(j)
    /\ Len(RawVariants(products[j + 1])) >= 2
    /\ Len(RawImages(products[j + 1])) >= 2
    /\ Cardinality(GroupOf(j)) >= 3

\* rows of a group that carry an Image Position
CarriesPosition(k) == parsed_products[k]["Image Position"] # EMPTY
PositionOf(k) == parsed_products[k]["Image Position"].n

\* C9: in a product's row group exactly one row, the first variant row, has
\* Image Position 1 and the main image; the positions carried by the other
\* rows are strictly increasing in row order, the image rows taking 2, 3, ...
C9_PositionsIncrease ==
  \A j \in ProductIndexes :
    GroupComplete(j) =>
      /\ \A k \in GroupOf(j) :
           parsed_products[k]["Image Position"] = IntV(1) <=>
             (origin[k].kind = "variant" /\ origin[k].index = 0)
      /\ \A k \in GroupOf(j) :
           parsed_products[k]["Image Position"] = IntV(1) =>
             parsed_products[k]["Image Src"] = Get(RawImages(products[j + 1])[1], "src", EMPTY)
      /\ \A a, b \in GroupOf(j) :
           (a < b /\ CarriesPosition(a) /\ CarriesPosition(b)) => PositionOf(a) < PositionOf(b)
      /\ \A k \in ImageRowsOf(j) :
           PositionOf(k) = 2 + Cardinality({m \in ImageRowsOf(j) : m < k})

\* the base columns of a row
BaseColumns ==
  {"Handle", "Title", "Body (HTML)", "Vendor", "Product Category", "Type", "Tags",
   "Published", "Collection", "Created At", "Updated At", "Description"}
VariantColumns ==
  {"Variant SKU", "Variant Grams", "Variant Inventory Qty", "Variant Price",
   "Variant Compare At Price", "Variant Requires Shipping", "Variant Taxable",
   "Variant Weight Unit", "Available", "Variants Count", "Variant Title", "Variant Image"}

\* C10: a row emitted for an image beyond the first is image-only: the base
\* fields of its product, Image Src / Position / Alt Text of that image, and
\* the empty string in the six option fields and in every variant field.
C10_ImageOnlyRows ==
  \A k \in RowIndexes :
    origin[k].kind = "image" =>
      LET p == SourceOf(k)
          image == RawImages(p)[origin[k].index]
      IN /\ \A c \in BaseColumns : parsed_products[k][c] = base_product_of(p)[c]
         /\ parsed_products[k]["Image Src"] = Get(image, "src", EMPTY)
         /\ parsed_products[k]["Image Position"] = IntV(origin[k].index)
         /\ parsed_products[k]["Image Alt Text"] = Get(image, "alt", EMPTY)
         /\ \A c \in OptionColumns \cup VariantColumns : parsed_products[k][c] = EMPTY

C10_Witness ==
  \E k \in RowIndexes :
    /\ origin[k].kind = "image"
    /\ origin[k].product >= 1
    /\ any_real_option(RawVariants(SourceOf(k)))

\* C11: all rows of one product, variant rows and image-only rows alike, carry
\* the same values in the twelve base columns and have the same column set.
C11_BaseFieldsShared ==
  \A j \in ProductIndexes : \A a, b \in GroupOf(j) :
    /\ \A c \in BaseColumns : parsed_products[a][c] = parsed_products[b][c]
    /\ DOMAIN parsed_products[a] = DOMAIN parsed_products[b]

C11_Witness ==
  \E j \in ProductIndexes :
    /\ j >= 1
    /\ VariantRowsOf(j) # {}
    /\ ImageRowsOf(j) # {}
    /\ \E k \in GroupOf(j) : parsed_products[k]["Title"] # EMPTY

InventoryConstants ==
  ("Variant Inventory Tracker" :> S("shopify")) @@
  ("Variant Inventory Policy" :> S("deny")) @@
  ("Variant Fulfillment Service" :> S("manual"))

\* C12 (as stated): every emitted row has Variant Inventory Tracker "shopify",
\* Variant Inventory Policy "deny" and Variant Fulfillment Service "manual".
C12_InventoryConstantsEveryRow ==
  \A k \in RowIndexes :
    \A c \in DOMAIN InventoryConstants : parsed_products[k][c] = InventoryConstants[c]

\* C12 (amended): every variant row has Variant Inventory Tracker "shopify",
\* Variant Inventory Policy "deny" and Variant Fulfillment Service "manual",
\* whatever the source data; every image-only row has the empty string there.
C12_InventoryConstantsVariantRows ==
  \A k \in RowIndexes :
    \A c \in DOMAIN InventoryConstants :
      parsed_products[k][c] =
        IF origin[k].kind = "variant" THEN InventoryConstants[c] ELSE EMPTY

C12_Witness ==
  \E a, b \in RowIndexes :
    /\ origin[a].kind = "variant"
    /\ origin[b].kind = "image"
    /\ origin[a].product = origin[b].product
    /\ RawVariants(SourceOf(a)) # <<>>

TrueFalseStrings == {S("TRUE"), S("FALSE")}

\* C13: Published on every row, and Variant Requires Shipping, Variant Taxable
\* and Available on every variant row, are the string "TRUE" or the string
\* "FALSE"; Published is "TRUE" exactly when published_at is present.
C13_BooleanColumnsAreStrings ==
  \A k \in RowIndexes :
    /\ parsed_products[k]["Published"] \in TrueFalseStrings
    /\ parsed_products[k]["Published"] = S("TRUE") <=>
         Get(SourceOf(k), "published_at", None) # None
    /\ origin[k].kind = "variant" =>
         \A c \in {"Variant Requires Shipping", "Variant Taxable", "Available"} :
           parsed_products[k][c] \in TrueFalseStrings

C13_Witness ==
  \E a, b \in RowIndexes :
    /\ origin[a].kind = "variant"
    /\ parsed_products[a]["Published"] = S("TRUE")
    /\ parsed_products[a]["Variant Taxable"] = S("FALSE")
    /\ parsed_products[a]["Available"] = S("TRUE")
    /\ parsed_products[b]["Published"] = S("FALSE")

\* ------------------------------------------------------ get_products_json
\* The page size the caller asks for (50 or 250 in main) is scaled down.
PageLimit == 2
Limits == {PageLimit, PageLimit + 1}

\* `if page > 50`: the pagination safety cap
MaxPages == 50
over_page_cap_off_by_one(page) == page > MaxPages + 1
over_page_cap(page) == page > MaxPages

\* what may go wrong in one iteration: requests.get or raise_for_status
\* raises a RequestException, response.json() raises a JSONDecodeError, or
\* the decoded JSON is not a dict and data.get raises an AttributeError
Exceptions == {"RequestException", "JSONDecodeError", "AttributeError"}

\* the except clauses of get_products_json; the last one is `except Exception`
gpj_handles_without_catch_all(exc) == exc \in {"RequestException", "JSONDecodeError"}
gpj_handles(exc) == exc \in {"RequestException", "JSONDecodeError"} \/ exc \in Exceptions

\* the n products the server puts on a page
PageProduct(page, j) == [id |-> IntV(10 * page + j), handle |-> S(ToString(10 * page + j))]
PageOf(page, n) == [j \in 1..n |-> PageProduct(page, j)]

\* the decoded bodies the server may answer a page request with: up to
\* `limit` products, or a JSON object without a 'products' key
PageBodies(page, limit) ==
  {[products |-> PageOf(page, n)] : n \in 0..limit} \cup {<<>>}

\* history entries: the length of the page received, -1 for a request that raised
IsFailure(entry) == entry < 0

GpjStart ==
  /\ gpj_pc = "request"
  /\ gpj_limit \in Limits
  /\ gpj_page = 1
  /\ gpj_all_products = <<>>
  /\ gpj_result = None
  /\ gpj_pages = <<>>
  /\ gpj_sleeps = <<>>

\* what an except clause returns, whatever was collected so far: `return None`
returned_on_error_partial(collected) == ListV(collected)
returned_on_error(collected) == None

\* the request, raise_for_status or the decoding raises: the except clauses
\* return None, or the exception leaves the function
GpjRequestFails ==
  /\ gpj_pc = "request"
  /\ \E exc \in Exceptions :
       /\ gpj_pc' = IF gpj_handles(exc) THEN "returned" ELSE "raised"
       /\ gpj_result' = returned_on_error(gpj_all_products)
  /\ gpj_pages' = Append(gpj_pages, -1)
  /\ gpj_sleeps' = Append(gpj_sleeps, FALSE)
  /\ UNCHANGED <<gpj_limit, gpj_page, gpj_all_products>>
  /\ UNCHANGED <<parse_vars, gcp_vars, main_vars, clean_vars>>

\* an empty page, or a page shorter than the limit: break and return
GpjLastPage ==
  /\ gpj_pc = "request"
  /\ \E data \in PageBodies(gpj_page, gpj_limit) :
       LET page_products == Get(data, "products", <<>>)
       IN /\ IsEmptyList(page_products) \/ Len(page_products) < gpj_limit
          /\ gpj_all_products' = gpj_all_products \o page_products
          /\ gpj_result' = ListV(gpj_all_products')
          /\ gpj_pages' = Append(gpj_pages, Len(page_products))
  /\ gpj_pc' = "returned"
  /\ gpj_sleeps' = Append(gpj_sleeps, FALSE)
  /\ UNCHANGED <<gpj_limit, gpj_page>>
  /\ UNCHANGED <<parse_vars, gcp_vars, main_vars, clean_vars>>

\* a full page: extend, page += 1, time.sleep(0.5), and stop beyond the cap
GpjFullPage ==
  /\ gpj_pc = "request"
  /\ \E data \in PageBodies(gpj_page, gpj_limit) :
       LET page_products == Get(data, "products", <<>>)
       IN /\ ~IsEmptyList(page_products)
          /\ ~(Len(page_products) < gpj_limit)
          /\ gpj_all_products' = gpj_all_products \o page_products
          /\ gpj_pages' = Append(gpj_pages, Len(page_products))
  /\ gpj_page' = gpj_page + 1
  /\ gpj_sleeps' = Append(gpj_sleeps, TRUE)
  /\ IF over_page_cap(gpj_page')
     THEN gpj_pc' = "returned" /\ gpj_result' = ListV(gpj_all_products')
     ELSE gpj_pc' = "request" /\ gpj_result' = gpj_result
  /\ UNCHANGED gpj_limit
  /\ UNCHANGED <<parse_vars, gcp_vars, main_vars, clean_vars>>

\* ------------------------------------------ get_collections_and_products
MaxCollections == 2

\* the collections the server may list: two with the same title, one
\* without a title, one without a handle
Collections ==
  { [handle |-> S("summer"), title |-> S("Summer")],
    [handle |-> S("sale"), title |-> S("Summer")],
    [handle |-> S("new")],
    [title |-> S("Ghost")] }

CollectionLists == SeqsUpTo(Collections, MaxCollections)

\* the products a collection page may hold: with an id or without, with
\* equal or different handles
Fetched(id, handle) == [handle |-> S(handle), images |-> <<Image(1)>>] @@
                       (IF id = 0 THEN <<>> ELSE [id |-> IntV(id)])
CollectionPages ==
  { <<>>,
    <<Fetched(1, "tee")>>,
    <<Fetched(1, "tee"), Fetched(2, "tee")>>,
    <<Fetched(0, "cap"), Fetched(0, "hat")>>,
    <<Fetched(2, "tee"), Fetched(0, "cap")>> }

\* collection.get('title', collection_handle)
collection_title(collection) == Get(collection, "title", Get(collection, "handle", None))

\* product['collection'] = ... for every product of the page
tag_products(page_products, collection) ==
  [k \in DOMAIN page_products |->
     ("collection" :> collection_title(collection)) @@ page_products[k]]

\* "Remove duplicates based on product ID": the first product of every id
\* (product.get('id'), None when the product has no id) is kept
RECURSIVE unique_products_of(_, _)
unique_products_of(all, seen_ids) ==
  IF all = <<>> THEN <<>>
  ELSE LET product_id == Get(Head(all), "id", None)
       IN IF product_id \notin seen_ids
          THEN <<Head(all)>> \o unique_products_of(Tail(all), seen_ids \cup {product_id})
          ELSE unique_products_of(Tail(all), seen_ids)

\* the value returned: (products, collection_products)
Returned(list, counts) == [products |-> ListV(list), collections |-> counts]
NoData == Returned(<<>>, <<>>)

\* the `except Exception` around the whole function and the bare `except`
\* around one collection request
gcp_outer_handles_requests_only(exc) == exc = "RequestException"
gcp_outer_handles(exc) == exc \in Exceptions
gcp_inner_handles_nothing(exc) == FALSE
gcp_inner_handles(exc) == TRUE

GcpStart ==
  /\ gcp_pc = "collections"
  /\ gcp_collections = <<>>
  /\ gcp_index = 0
  /\ gcp_all_products = <<>>
  /\ gcp_collection_products = <<>>
  /\ gcp_result = None
  /\ gcp_requests = <<>>
  /\ gcp_sleeps = <<>>

\* the collections.json request or its decoding raises
GcpCollectionsFail ==
  /\ gcp_pc = "collections"
  /\ \E exc \in Exceptions :
       /\ gcp_pc' = IF gcp_outer_handles(exc) THEN "returned" ELSE "raised"
       /\ gcp_result' = IF gcp_outer_handles(exc) THEN NoData ELSE None
       /\ gcp_requests' = Append(gcp_requests, [url |-> "collections.json", outcome |-> exc])
       /\ gcp_sleeps' = Append(gcp_sleeps, FALSE)
  /\ UNCHANGED <<gcp_collections, gcp_index, gcp_all_products, gcp_collection_products>>
  /\ UNCHANGED <<parse_vars, gpj_vars, main_vars, clean_vars>>

\* collections.json answers with a status other than 200: return [], {}
GcpCollectionsRefused ==
  /\ gcp_pc = "collections"
  /\ gcp_pc' = "returned"
  /\ gcp_result' = NoData
  /\ gcp_requests' = Append(gcp_requests, [url |-> "collections.json", outcome |-> "status"])
  /\ gcp_sleeps' = Append(gcp_sleeps, FALSE)
  /\ UNCHANGED <<gcp_collections, gcp_index, gcp_all_products, gcp_collection_products>>
  /\ UNCHANGED <<parse_vars, gpj_vars, main_vars, clean_vars>>

\* collections.json answers 200 with a list of collections
GcpCollectionsListed ==
  /\ gcp_pc = "collections"
  /\ gcp_collections' \in CollectionLists
  /\ gcp_all_products' = <<>>
  /\ gcp_collection_products' = <<>>
  /\ gcp_index' = 0
  /\ gcp_pc' = "loop"
  /\ gcp_requests' = Append(gcp_requests, [url |-> "collections.json", outcome |-> "ok"])
  /\ gcp_sleeps' = Append(gcp_sleeps, FALSE)
  /\ UNCHANGED gcp_result
  /\ UNCHANGED <<parse_vars, gpj_vars, main_vars, clean_vars>>

collection == gcp_collections[gcp_index + 1]

\* a collection without a handle is passed over
GcpNoHandle ==
  /\ gcp_pc = "loop"
  /\ gcp_index < Len(gcp_collections)
  /\ ~Truthy(Get(collection, "handle", None))
  /\ gcp_index' = gcp_index + 1
  /\ UNCHANGED <<gcp_pc, gcp_collections, gcp_all_products, gcp_collection_products,
                 gcp_result, gcp_requests, gcp_sleeps>>
  /\ UNCHANGED <<parse_vars, gpj_vars, main_vars, clean_vars>>

\* the request for one collection raises: `except: continue`; an exception
\* the inner clause did not take would reach the outer one
GcpCollectionFails ==
  /\ gcp_pc = "loop"
  /\ gcp_index < Len(gcp_collections)
  /\ Truthy(Get(collection, "handle", None))
  /\ \E exc \in Exceptions :
       /\ gcp_pc' = IF gcp_inner_handles(exc) THEN "loop"
                    ELSE IF gcp_outer_handles(exc) THEN "returned" ELSE "raised"
       /\ gcp_result' = IF ~gcp_inner_handles(exc) /\ gcp_outer_handles(exc)
                        THEN NoData ELSE gcp_result
       /\ gcp_requests' = Append(gcp_requests, [url |-> collection.handle, outcome |-> exc])
       /\ gcp_sleeps' = Append(gcp_sleeps, FALSE)
  /\ gcp_index' = gcp_index + 1
  /\ UNCHANGED <<gcp_collections, gcp_all_products, gcp_collection_products>>
  /\ UNCHANGED <<parse_vars, gpj_vars, main_vars, clean_vars>>

\* the request for one collection answers with a status other than 200
GcpCollectionRefused ==
  /\ gcp_pc = "loop"
  /\ gcp_index < Len(gcp_collections)
  /\ Truthy(Get(collection, "handle", None))
  /\ gcp_requests' = Append(gcp_requests, [url |-> collection.handle, outcome |-> "status"])
  /\ gcp_sleeps' = Append(gcp_sleeps, FALSE)
  /\ gcp_index' = gcp_index + 1
  /\ UNCHANGED <<gcp_pc, gcp_collections, gcp_all_products, gcp_collection_products,
                 gcp_result>>
  /\ UNCHANGED <<parse_vars, gpj_vars, main_vars, clean_vars>>

\* the request for one collection answers 200: count, tag and collect its
\* products, then time.sleep(0.3)
GcpCollectionFetched ==
  /\ gcp_pc = "loop"
  /\ gcp_index < Len(gcp_collections)
  /\ Truthy(Get(collection, "handle", None))
  /\ \E page_products \in CollectionPages :
       /\ gcp_collection_products' =
            (collection_title(collection) :> IntV(Len(page_products))) @@ gcp_collection_products
       /\ gcp_all_products' = gcp_all_products \o tag_products(page_products, collection)
       /\ gcp_requests' = Append(gcp_requests,
            [url |-> collection.handle, outcome |-> "ok",
             collection |-> collection, page |-> page_products])
  /\ gcp_sleeps' = Append(gcp_sleeps, TRUE)
  /\ gcp_index' = gcp_index + 1
  /\ UNCHANGED <<gcp_pc, gcp_collections, gcp_result>>
  /\ UNCHANGED <<parse_vars, gpj_vars, main_vars, clean_vars>>

\* after the last collection: remove duplicates and return
GcpReturn ==
  /\ gcp_pc = "loop"
  /\ gcp_index >= Len(gcp_collections)
  /\ gcp_result' = Returned(unique_products_of(gcp_all_products, {}), gcp_collection_products)
  /\ gcp_pc' = "returned"
  /\ UNCHANGED <<gcp_collections, gcp_index, gcp_all_products, gcp_collection_products,
                 gcp_requests, gcp_sleeps>>
  /\ UNCHANGED <<parse_vars, gpj_vars, main_vars, clean_vars>>

\* --------------------------------------------- the fetch methods on their own
InitFetch ==
  /\ ParseIdle
  /\ MainIdle
  /\ CleanIdle
  /\ \/ GpjStart /\ GcpIdle
     \/ GcpStart /\ GpjIdle

NextFetch ==
  \/ GpjRequestFails
  \/ GpjLastPage
  \/ GpjFullPage
  \/ GcpCollectionsFail
  \/ GcpCollectionsRefused
  \/ GcpCollectionsListed
  \/ GcpNoHandle
  \/ GcpCollectionFails
  \/ GcpCollectionRefused
  \/ GcpCollectionFetched
  \/ GcpReturn

SpecFetch == InitFetch /\ [][NextFetch]_vars

\* the functions run to completion once called
SpecFetchFair == SpecFetch /\ WF_vars(NextFetch)

\* a request answered by a page shorter than the limit (an empty page included)
ShortPage(entry) == entry >= 0 /\ entry < gpj_limit

\* C14: get_products_json terminates whatever the server answers: it issues
\* at most 50 page requests, none after a page shorter than the limit or after
\* a failed request, and once called it returns.
C14_PaginationStops ==
  /\ [](/\ Len(gpj_pages) <= MaxPages
        /\ \A k \in 1..(Len(gpj_pages) - 1) :
             ~ShortPage(gpj_pages[k]) /\ ~IsFailure(gpj_pages[k]))
  /\ (gpj_pc = "request") ~> (gpj_pc = "returned")

C14_Witness ==
  /\ gpj_pc = "returned"
  /\ Len(gpj_pages) = MaxPages
  /\ \A k \in DOMAIN gpj_pages : gpj_pages[k] = gpj_limit
  /\ Len(gpj_result.l) = MaxPages * gpj_limit

Identity(p) ==
  IF Get(p, "id", None) # None THEN Get(p, "id", None) ELSE Get(p, "handle", None)

\* C17: de-duplication keeps one product of every identity, the identity
\* being the id, or the handle when the id is absent: every product fetched
\* has a representative of its identity in the result.
C17_IdentityKeyedDedup ==
  (gcp_pc = "returned" /\ gcp_requests[1].outcome = "ok") =>
    \A k \in DOMAIN gcp_all_products :
      \E m \in DOMAIN gcp_result.products.l :
        Identity(gcp_result.products.l[m]) = Identity(gcp_all_products[k])

\* ------------------------------------------------------------------ main
\* One rerun of the script per interaction: the scrape button starts a run
\* of the selected method, the Clear Data button resets the session.

MaxFetched == 2

StoreUrls == {EMPTY, S("shop-a"), S("shop-b")}
Methods == {"Standard JSON API", "Paginated JSON API",
            "Collections-based Scraping", "All Methods Combined"}

\* what the fetch functions may hand back to main: get_products_json returns
\* None or a list (a product may come twice, or have no images),
\* get_collections_and_products a list and the per-collection counts
StandardResults ==
  {None} \cup {ListV(l) : l \in SeqsUpTo({Fetched(1, "tee"), ImagelessNeighbour}, MaxFetched)}
PaginatedResults ==
  {None} \cup {ListV(l) : l \in {<<>>, <<Fetched(2, "tee")>>, <<Fetched(3, "mug")>>}}
CollectionsResults ==
  { NoData,
    Returned(tag_products(<<Fetched(1, "tee")>>, [title |-> S("Summer")]),
             S("Summer") :> IntV(1)),
    Returned(tag_products(<<Fetched(4, "hat")>>, [title |-> S("Hats")]),
             S("Hats") :> IntV(1)) }

\* parse_product_data as a function of its argument: the rows of the
\* products that have images, in order
parse_product_data(ps) == FlatRows(SelectSeq(ps, HasImages))

\* the first block of a run of the selected method
first_stage(method) ==
  CASE method = "Standard JSON API" -> "standard"
    [] method = "Paginated JSON API" -> "paginated"
    [] method = "Collections-based Scraping" -> "collections"
    [] method = "All Methods Combined" -> "method1"

\* the block that follows a block in the text of main ("check" is the
\* `if not all_products` after the last block)
block_after_collections_first(stage) ==
  CASE stage = "method1" -> "method3"
    [] stage = "method3" -> "method2"
    [] OTHER -> "check"

block_after(stage) ==
  CASE stage = "method1" -> "method2"
    [] stage = "method2" -> "method3"
    [] OTHER -> "check"

\* where a block goes on when its method gave nothing to parse: the `if` is
\* skipped and the run falls through to the next block
on_no_data_abort(stage) == "check"

on_no_data(stage) == block_after(stage)

\* existing_handles = {p.get('Handle') for p in all_products}
existing_handles(rows) == {Get(rows[k], "Handle", None) : k \in DOMAIN rows}

\* [p for p in products if p.get('handle') not in existing_handles]
without_existing(fetched, rows) ==
  SelectSeq(fetched, LAMBDA p : Get(p, "handle", None) \notin existing_handles(rows))

\* `if not all_products`
no_products_found_never(rows) == FALSE

no_products_found(rows) == rows = <<>>

outside_main == <<parse_vars, gpj_vars, gcp_vars, clean_vars>>

\* the locals of a run are gone when the script ends; the message stays on
\* the page
RunEnds(message) ==
  /\ m_pc' = "idle"
  /\ m_stage' = "none"
  /\ store_url' = EMPTY
  /\ scraping_method' = "none"
  /\ all_products' = <<>>
  /\ m_collection_info' = <<>>
  /\ m_products' = None
  /\ products1' = None
  /\ products2' = None
  /\ products3' = None
  /\ collections' = <<>>
  /\ new_products' = <<>>
  /\ m_log' = <<>>
  /\ m_contributed' = <<>>
  /\ m_message' = message

InitMain == ParseIdle /\ GpjIdle /\ GcpIdle /\ MainIdle /\ CleanIdle

\* `if scrape_button and store_url`: the URL is recorded and the locals start
\* empty
Scrape ==
  /\ m_pc = "idle"
  /\ \E url \in StoreUrls, method \in Methods :
       /\ Truthy(url)
       /\ store_url' = url
       /\ scraping_method' = method
       /\ last_scraped_url' = url
       /\ m_stage' = first_stage(method)
  /\ m_pc' = "fetch"
  /\ all_products' = <<>>
  /\ m_collection_info' = <<>>
  /\ m_message' = "none"
  /\ m_log' = <<>>
  /\ m_contributed' = <<>>
  /\ UNCHANGED <<scraped_data, collection_info, scraping_completed, stored_from>>
  /\ UNCHANGED <<m_products, products1, products2, products3, collections, new_products>>
  /\ UNCHANGED outside_main

\* what every fetch step leaves alone
FetchFrame ==
  /\ UNCHANGED session_vars
  /\ UNCHANGED <<store_url, scraping_method, all_products, m_collection_info,
                 m_message, m_contributed>>
  /\ UNCHANGED outside_main

\* control moves to a block, or to the check after the last block
GoTo(target) ==
  /\ m_pc' = IF target = "check" THEN "check" ELSE "fetch"
  /\ m_stage' = IF target = "check" THEN m_stage ELSE target

\* a fetch has returned, and `fresh` of its products are to be parsed
Fetched_then(method, fresh) ==
  /\ m_log' = Append(m_log, method)
  /\ new_products' = fresh
  /\ IF fresh # <<>>
     THEN m_pc' = "parse" /\ m_stage' = m_stage
     ELSE GoTo(on_no_data(m_stage))

\* products = get_products_json(store_url, limit=50); if products:
StandardFetch ==
  /\ m_pc = "fetch" /\ m_stage = "standard"
  /\ \E result \in StandardResults :
       /\ m_products' = result
       /\ Fetched_then("standard", IF Truthy(result) THEN result.l ELSE <<>>)
  /\ UNCHANGED <<products1, products2, products3, collections>>
  /\ FetchFrame

\* products = get_products_json(store_url, limit=250); if products:
PaginatedFetch ==
  /\ m_pc = "fetch" /\ m_stage = "paginated"
  /\ \E result \in PaginatedResults :
       /\ m_products' = result
       /\ Fetched_then("paginated", IF Truthy(result) THEN result.l ELSE <<>>)
  /\ UNCHANGED <<products1, products2, products3, collections>>
  /\ FetchFrame

\* products, collections = get_collections_and_products(store_url); if products:
CollectionsFetch ==
  /\ m_pc = "fetch" /\ m_stage = "collections"
  /\ \E result \in CollectionsResults :
       /\ m_products' = result.products
       /\ collections' = result.collections
       /\ Fetched_then("collections", result.products.l)
  /\ UNCHANGED <<products1, products2, products3>>
  /\ FetchFrame

\* Method 1: products1 = get_products_json(store_url, limit=50); if products1:
Method1Fetch ==
  /\ m_pc = "fetch" /\ m_stage = "method1"
  /\ \E result \in StandardResults :
       /\ products1' = result
       /\ Fetched_then("standard", IF Truthy(result) THEN result.l ELSE <<>>)
  /\ UNCHANGED <<m_products, products2, products3, collections>>
  /\ FetchFrame

\* Method 2: products2 = get_products_json(store_url, limit=250); the
\* products whose handle is already among the rows are dropped
Method2Fetch ==
  /\ m_pc = "fetch" /\ m_stage = "method2"
  /\ \E result \in PaginatedResults :
       /\ products2' = result
       /\ Fetched_then("paginated",
                       IF Truthy(result) THEN without_existing(result.l, all_products) ELSE <<>>)
  /\ UNCHANGED <<m_products, products1, products3, collections>>
  /\ FetchFrame

\* Method 3: products3, collections = get_collections_and_products(store_url),
\* with the same filter
Method3Fetch ==
  /\ m_pc = "fetch" /\ m_stage = "method3"
  /\ \E result \in CollectionsResults :
       /\ products3' = result.products
       /\ collections' = result.collections
       /\ Fetched_then("collections", without_existing(result.products.l, all_products))
  /\ UNCHANGED <<m_products, products1, products2>>
  /\ FetchFrame

\* parsed = parse_product_data(...); all_products.extend(parsed); the
\* collections blocks also set collection_info = collections
Parse ==
  /\ m_pc = "parse"
  /\ all_products' = all_products \o parse_product_data(new_products)
  /\ m_contributed' = m_contributed \o SelectSeq(new_products, HasImages)
  /\ m_collection_info' = IF m_stage \in {"collections", "method3"}
                          THEN collections ELSE m_collection_info
  /\ GoTo(block_after(m_stage))
  /\ UNCHANGED session_vars
  /\ UNCHANGED <<store_url, scraping_method, m_products, products1, products2, products3,
                 collections, new_products, m_message, m_log>>
  /\ UNCHANGED outside_main

\* if not all_products: st.warning("No products found. ..."); st.stop()
NoProductsFound ==
  /\ m_pc = "check"
  /\ no_products_found(all_products)
  /\ RunEnds("No products found")
  /\ UNCHANGED session_vars
  /\ UNCHANGED outside_main

\* the results go to the session state, then st.rerun()
StoreResults ==
  /\ m_pc = "check"
  /\ ~no_products_found(all_products)
  /\ scraped_data' = all_products
  /\ collection_info' = m_collection_info
  /\ scraping_completed' = TRUE
  /\ stored_from' = store_url
  /\ RunEnds("Successfully scraped")
  /\ UNCHANGED last_scraped_url
  /\ UNCHANGED outside_main

\* the Clear Data button, shown when scraping_completed
ClearData ==
  /\ m_pc = "idle"
  /\ scraping_completed
  /\ scraped_data' = <<>>
  /\ collection_info' = <<>>
  /\ last_scraped_url' = EMPTY
  /\ scraping_completed' = FALSE
  /\ stored_from' = EMPTY
  /\ RunEnds("none")
  /\ UNCHANGED outside_main

NextMain ==
  \/ Scrape
  \/ StandardFetch
  \/ PaginatedFetch
  \/ CollectionsFetch
  \/ Method1Fetch
  \/ Method2Fetch
  \/ Method3Fetch
  \/ Parse
  \/ NoProductsFound
  \/ StoreResults
  \/ ClearData

SpecMain == InitMain /\ [][NextMain]_vars

\* ------------------------------------------------------- claims about main
Combined == scraping_method = "All Methods Combined"

\* the three blocks of a combined run are behind
AfterThreeMethods == Combined /\ m_pc = "check"

\* C16: in "All Methods Combined", after the three methods have run, no
\* product identity has contributed more than one row group: the products
\* whose rows were appended have pairwise different identities, also when a
\* product occurs twice in one method's own list.
C16_OneRowGroupPerIdentity ==
  AfterThreeMethods =>
    \A a, b \in DOMAIN m_contributed :
      a # b => Identity(m_contributed[a]) # Identity(m_contributed[b])

\* the list a fetch result carries, empty for None
DataOf(result) == IF Truthy(result) THEN result.l ELSE <<>>

\* rows occurs in all as one contiguous block
IsBlockOf(rows, all) ==
  \E offset \in 0..(Len(all) - Len(rows)) :
    \A k \in DOMAIN rows : all[offset + k] = rows[k]

\* the results of the three methods of a combined run, in order
CombinedResults == <<products1, products2, products3>>

AllMethods == <<"standard", "paginated", "collections">>

\* C18: in "All Methods Combined" a method that returns None or an empty list
\* does not abort the run: all three methods have been invoked when the run
\* reaches its end, every product with images that any method returned has
\* rows in the output, and the rows of the first method that returned data
\* are there in full.
C18_NoDataDoesNotAbort ==
  AfterThreeMethods =>
    /\ m_log = AllMethods
    /\ \A n \in 1..3 :
         /\ \A k \in DOMAIN DataOf(CombinedResults[n]) :
              LET p == DataOf(CombinedResults[n])[k]
              IN HasImages(p) =>
                   \E r \in DOMAIN all_products :
                     all_products[r]["Handle"] = base_product_of(p)["Handle"]
         /\ (\A e \in 1..(n - 1) : parse_product_data(DataOf(CombinedResults[e])) = <<>>)
              => IsBlockOf(parse_product_data(DataOf(CombinedResults[n])), all_products)

\* the first two methods returned no data, the third did
C18_Witness ==
  /\ AfterThreeMethods
  /\ products1 = None
  /\ products2 = ListV(<<>>)
  /\ products3.l # <<>>
  /\ all_products = parse_product_data(products3.l)
  /\ all_products # <<>>

\* a step of a scrape run, from the button to the end of the script
RunStep == m_pc # "idle" \/ m_pc' # "idle"

\* the stored results are written, or scraping_completed becomes true
StoredResultsWritten ==
  \/ scraped_data' # scraped_data
  \/ collection_info' # collection_info
  \/ (~scraping_completed /\ scraping_completed')

\* C19: when every attempted method of a run yielded zero rows, the run ends
\* with the "No products found" message, and no step of such a run writes
\* scraped_data or collection_info or sets scraping_completed: these are
\* written only by the last step of a run that has rows.
C19_EmptyRunStoresNothing ==
  [][ /\ (m_pc = "check" /\ all_products = <<>>)
           => (m_pc' = "idle" /\ m_message' = "No products found")
      /\ (RunStep /\ StoredResultsWritten)
           => (m_pc = "check" /\ all_products # <<>>) ]_vars

\* a run without rows has ended after an earlier run had stored its results:
\* these are still there
C19_Witness ==
  /\ m_pc = "idle"
  /\ m_message = "No products found"
  /\ scraping_completed
  /\ scraped_data # <<>>

\* the fetch methods a run of the selected method asks for, in order
Requested(method) ==
  CASE method = "Standard JSON API" -> <<"standard">>
    [] method = "Paginated JSON API" -> <<"paginated">>
    [] method = "Collections-based Scraping" -> <<"collections">>
    [] method = "All Methods Combined" -> AllMethods
    [] OTHER -> <<>>

IsPrefix(s, t) == Len(s) <= Len(t) /\ \A k \in DOMAIN s : s[k] = t[k]

\* the fetches completed so far are the first of the requested ones, in order
FetchesInOrder == IsPrefix(m_log, Requested(scraping_method))

\* the fetch method of a block, and the variable holding its result
MethodOf(stage) ==
  CASE stage \in {"standard", "method1"} -> "standard"
    [] stage \in {"paginated", "method2"} -> "paginated"
    [] stage \in {"collections", "method3"} -> "collections"

ResultOf(stage) ==
  CASE stage = "method1" -> products1
    [] stage = "method2" -> products2
    [] stage = "method3" -> products3
    [] OTHER -> m_products

DelayedBetween(sleeps) == \A k \in 1..(Len(sleeps) - 1) : sleeps[k]

\* C21: between any two consecutive requests of one fetch method a sleep
\* takes place: between successive pages of get_products_json, and between
\* collections.json and the per-collection requests of
\* get_collections_and_products, whatever the outcome of the earlier request.
C21_DelayBetweenRequests ==
  /\ DelayedBetween(gpj_sleeps)
  /\ DelayedBetween(gcp_sleeps)

\* ------------------------------------------------ more claims about the rows
\* the controlled taxonomy of the category mapping: the table's values and
\* the generic default
Taxonomy ==
  { S("Apparel & Accessories > Clothing > Shirts & Tops"),
    S("generic default category") }

HasTypeString(p) == Get(p, "product_type", None).t = "str" /\ Truthy(Get(p, "product_type", None))

\* C22: Product Category of every row comes from the product's type only:
\* empty when the product has no type string, also when it has a collection
\* name, and a value of the controlled taxonomy when it has one.
C22_CategoryFromTypeOnly ==
  \A k \in RowIndexes :
    IF HasTypeString(SourceOf(k))
    THEN parsed_products[k]["Product Category"] \in Taxonomy
    ELSE parsed_products[k]["Product Category"] = EMPTY

\* --------------------------------- clean_text_for_dataframe on its own
MaxTextLen == 3

CleanAlphabet == {"a", "SP", "LF", "NUL", "DEL", "SURROGATE"}

\* short texts of every shape, texts around the length limit, and values
\* that are not strings
Filler == [k \in 1..(MaxCellLen - 1) |-> "a"]
LongTexts == {Filler \o tail : tail \in SeqsUpTo({"a", "SP"}, 2)}
CleanInputs ==
  {None, IntV(0), IntV(5)} \cup
  {StrV(t) : t \in SeqsUpTo(CleanAlphabet, MaxTextLen) \cup LongTexts}

InitClean ==
  /\ text \in CleanInputs
  /\ cleaned = None
  /\ clean_pc = "called"
  /\ ParseIdle /\ GpjIdle /\ GcpIdle /\ MainIdle

CleanReturn ==
  /\ clean_pc = "called"
  /\ cleaned' = clean_text_for_dataframe(text)
  /\ clean_pc' = "returned"
  /\ UNCHANGED text
  /\ UNCHANGED <<parse_vars, gpj_vars, gcp_vars, main_vars>>

NextClean == CleanReturn

SpecClean == InitClean /\ [][NextClean]_vars

\* every control character: those below code point 32, tab, newline and
\* carriage return included, and those above
AllControlChars == ControlChars \cup HighControlChars \cup {"TAB", "LF", "CR"}

NoControlChars(s) == \A k \in DOMAIN s : s[k] \notin AllControlChars

NoWhitespaceRun(s) ==
  \A k \in 1..(Len(s) - 1) : ~(s[k] \in Whitespace /\ s[k + 1] \in Whitespace)

Trimmed(s) == s = <<>> \/ (s[1] \notin Whitespace /\ s[Len(s)] \notin Whitespace)

\* the characters of a text that are neither whitespace nor removed
Letters(s) ==
  SelectSeq(s, LAMBDA c : c \notin Whitespace \cup ControlChars \cup Unencodable)

Ellipsis == <<".", ".", ".">>

\* out is the whole cleaned text of at most 2000 characters, or 2000
\* characters of it followed by the ellipsis
WholeOrTruncated(in, out) ==
  \/ /\ Len(out) <= MaxCellLen
     /\ Letters(out) = Letters(in)
  \/ /\ Len(out) = MaxCellLen + Len(Ellipsis)
     /\ SubSeq(out, MaxCellLen + 1, Len(out)) = Ellipsis
     /\ Len(Letters(in)) >= Len(Letters(SubSeq(out, 1, MaxCellLen)))
     /\ Letters(SubSeq(out, 1, MaxCellLen)) =
          SubSeq(Letters(in), 1, Len(Letters(SubSeq(out, 1, MaxCellLen))))
     /\ Len(CollapseWs(SelectSeq(in, LAMBDA c : c \notin ControlChars \cup Unencodable)))
          > MaxCellLen

CleanShape ==
  (clean_pc = "returned") =>
    /\ cleaned.t = "str"
    /\ NoWhitespaceRun(cleaned.s)
    /\ Trimmed(cleaned.s)
    /\ text.t = "str" => WholeOrTruncated(text.s, cleaned.s)
    /\ text \in {None, EMPTY} => cleaned = EMPTY

\* C23: for every input text clean_text_for_dataframe returns a string with
\* no control character, no run of two or more whitespace characters and no
\* leading or trailing whitespace, that is the whole cleaned text when that
\* has at most 2000 characters and otherwise its first 2000 characters
\* followed by "..."; an absent or empty input gives the empty string.
C23_CleanTextShape ==
  /\ CleanShape
  /\ (clean_pc = "returned") => NoControlChars(cleaned.s)

\* the collection names under which products were fetched, and the number of
\* products fetched under a name, over all the collections that carry it
ReportedNames == {gcp_all_products[k]["collection"] : k \in DOMAIN gcp_all_products}
FetchedUnder(name) ==
  Cardinality({k \in DOMAIN gcp_all_products : gcp_all_products[k]["collection"] = name})

\* C24: the collection-count map gives for each collection name the sum of
\* the product counts of every source that reported the name, two fetched
\* collections with one title included, and has every name reported.
C24_CountsSummedPerName ==
  (gcp_pc = "returned" /\ gcp_requests # <<>> /\ gcp_requests[1].outcome = "ok") =>
    \A name \in ReportedNames :
      /\ name \in DOMAIN gcp_result.collections
      /\ gcp_result.collections[name] = IntV(FetchedUnder(name))

\* ------------------------------------------------------------ the exports
\* filtered_df.to_csv(index=False): the text written for one cell
to_csv_cell(v) ==
  CASE v.t = "str" -> v.s
    [] v.t = "int" -> <<ToString(v.n)>>
    [] v.t = "bool" -> IF v.b THEN <<"True">> ELSE <<"False">>
    [] v.t = "None" -> <<>>

\* filtered_df.to_json(orient='records'): the JSON value written for one cell
to_json_value(v) ==
  CASE v.t = "str" -> [json |-> "string", s |-> v.s]
    [] v.t = "int" -> [json |-> "number", n |-> v.n]
    [] v.t = "bool" -> [json |-> "boolean", b |-> v.b]
    [] v.t = "None" -> [json |-> "null"]

\* C25: serializing the rows to CSV and to JSON preserves every field's
\* string value: every field of every row is a string, the JSON value is
\* that string and the CSV text is that string, for variant rows and
\* image-only rows alike.
C25_ExportsKeepStrings ==
  \A k \in RowIndexes : \A c \in DOMAIN parsed_products[k] :
    LET field == parsed_products[k][c]
    IN /\ field.t = "str"
       /\ to_json_value(field) = [json |-> "string", s |-> to_csv_cell(field)]

\* ------------------------------------------------------ the order of rows
\* variant rows come before image-only rows
KindRank(kind) == IF kind = "variant" THEN 0 ELSE 1

\* the row of origin a comes before the row of origin b: an earlier product,
\* or the same product and an earlier loop, or the same loop and a lower index
Before(a, b) ==
  \/ a.product < b.product
  \/ a.product = b.product /\ KindRank(a.kind) < KindRank(b.kind)
  \/ a.product = b.product /\ a.kind = b.kind /\ a.index < b.index

\* the title of the variant at index n of product p, and the source of its
\* image at position n
VariantTitleAt(p, n) ==
  IF RawVariants(p) = <<>> THEN S("Default Title")
  ELSE Get(RawVariants(p)[n + 1], "title", S("Default Title"))
ImageSrcAt(p, n) == Get(RawImages(p)[n], "src", EMPTY)

ClearStep == m_pc = "idle" /\ m_pc' = "idle"

\* C27: after any sequence of scrape runs and Clear Data actions,
\* scraping_completed implies that scraped_data is not empty, and right
\* after Clear Data the four session fields have their initial values.
C27_SessionInvariant ==
  /\ [](scraping_completed => scraped_data # <<>>)
  /\ [][ClearStep => SessionFresh']_vars

\* a successful collections run has stored rows and counts
C27_Witness ==
  /\ m_pc = "idle"
  /\ m_message = "Successfully scraped"
  /\ scraping_completed
  /\ scraped_data # <<>>
  /\ collection_info # <<>>

\* C28: whenever scraping_completed is true, last_scraped_url is the URL of
\* the scrape run that produced the stored scraped_data, also after a later
\* run that ended in "No products found".
C28_UrlOfStoredData ==
  (m_pc = "idle" /\ scraping_completed) => last_scraped_url = stored_from

\* ------------------------------------- more claims about the fetch methods
\* the products of the first n pages received, in page order
RECURSIVE PagesUpTo(_)
PagesUpTo(n) ==
  IF n = 0 THEN <<>> ELSE PagesUpTo(n - 1) \o PageOf(n, gpj_pages[n])

\* C29: get_products_json is all-or-nothing: when every page request
\* succeeded it returns the pages concatenated in page order, and when the
\* request or decode of a page failed it returns None, whatever the earlier
\* pages held.
C29_AllOrNothing ==
  (gpj_pc = "returned") =>
    IF \E k \in DOMAIN gpj_pages : IsFailure(gpj_pages[k])
    THEN gpj_result = None
    ELSE gpj_result = ListV(PagesUpTo(Len(gpj_pages)))

\* the third page request failed after two full pages were collected
C29_Witness ==
  /\ gpj_pc = "returned"
  /\ Len(gpj_pages) = 3
  /\ IsFailure(gpj_pages[3])
  /\ Len(gpj_all_products) = 2 * gpj_limit
  /\ gpj_result = None

\* what the collections answered successfully among the first n requests
\* give: their products, tagged, and their counts
RECURSIVE ProductsOfAnswered(_)
ProductsOfAnswered(n) ==
  IF n <= 1 THEN <<>>
  ELSE ProductsOfAnswered(n - 1) \o
       (IF gcp_requests[n].outcome = "ok"
        THEN tag_products(gcp_requests[n].page, gcp_requests[n].collection)
        ELSE <<>>)

RECURSIVE CountsOfAnswered(_)
CountsOfAnswered(n) ==
  IF n <= 1 THEN <<>>
  ELSE IF gcp_requests[n].outcome = "ok"
       THEN (collection_title(gcp_requests[n].collection) :> IntV(Len(gcp_requests[n].page)))
            @@ CountsOfAnswered(n - 1)
       ELSE CountsOfAnswered(n - 1)

\* C30: in get_collections_and_products a failed or refused request for one
\* collection skips only that collection: what is returned is what the
\* collections that answered give, as if the others had not been listed; a
\* failure of the collections.json request gives an empty list and map.
C30_FailedCollectionSkipped ==
  (gcp_pc = "returned") =>
    IF gcp_requests[1].outcome # "ok"
    THEN gcp_result = NoData
    ELSE gcp_result = Returned(unique_products_of(ProductsOfAnswered(Len(gcp_requests)), {}),
                               CountsOfAnswered(Len(gcp_requests)))

\* one collection request raised and another was answered with products,
\* which are returned
C30_Witness ==
  /\ gcp_pc = "returned"
  /\ \E a, b \in 2..Len(gcp_requests) :
       /\ gcp_requests[a].outcome \in Exceptions
       /\ gcp_requests[b].outcome = "ok"
       /\ gcp_requests[b].page # <<>>
  /\ gcp_result.products.l # <<>>
  /\ DOMAIN gcp_result.collections # {}

====
